---- MODULE Spec2Model ----
(***************************************************************************)
(* A model of cowtracker: the MQTT subscription manager (ttn.py), the      *)
(* uplink envelope and payload decoder (messages.py), the movement         *)
(* heuristic and the periodic fleet checkup (cows.py), the storage         *)
(* connection context (db.py).                                             *)
(*                                                                         *)
(* Conventions.                                                            *)
(*  - Python semantics are those of CPython >= 3.8: CancelledError is a    *)
(*    BaseException, so "except Exception" does not catch it.              *)
(*  - Voltages are in tenths of a volt, capacities in fifteenths of a      *)
(*    percent (100*kappa), latitudes and longitudes in micro-degrees,      *)
(*    distances in millimetres, timestamps and ages in hours.              *)
(*  - "None" is Python's None / SQL NULL; "unset" is an attribute that     *)
(*    was never assigned (reading it raises AttributeError).               *)
(*  - Storage is PostgreSQL through asyncpg: every connection() is its own *)
(*    pooled connection and transaction (READ COMMITTED), so a row         *)
(*    inserted in an open transaction is invisible to other connections    *)
(*    until commit, and is discarded when the transaction rolls back.      *)
(***************************************************************************)
EXTENDS Integers, Sequences, FiniteSets, TLC

\* ------------------------------------------------------------------ bounds
MaxAttempts == 2
MaxMsgs == 2
MaxMeas == 4
MaxCycles == 2
MaxCtx == 3
MaxConns == 2
StartTime == 100

\* ------------------------------------------------------- program constants
DecodePort == 136
MinFrameLen == 11
HistoryLimit == 20
MinPoints == 3
AccCoeff == 2

VARIABLES
    pc,              \* run_retry / run: where the subscription manager is
    exc,             \* the exception run is leaving with ("none" if none)
    conn,            \* the broker connection: "down", "up", "lost"
    attempt,         \* number of calls of run so far
    tasks,           \* TTNClient.tasks: every task ever added
    taskState,       \* per task: "absent","wait","store","cancelling","failed","cancelled"
    taskMsg,         \* per task: the uplink whose store() it is awaiting
    subscribed,      \* topics subscribed on the current connection
    cur,             \* cancel_tasks: the task it is awaiting ("none")
    delivered,       \* number of broker messages delivered to listeners
    lastLog,         \* the last thing a listener logged
    meas,            \* table meas, per deveui, committed rows, newest first
    cows_not_moving, \* Cows.cows_not_moving: name -> None or Some(_Warning)
    sent,            \* e-mails Email.send_email has sent, oldest first
    mapping,         \* Cows._mapping_by_deveui: None or Some(set of <<name, deveui>>)
    now,             \* the clock, in hours
    ck_pc,           \* _periodic_checkup: "start", "loop" (in _check_all_cows), "sleep"
    ck_todo,         \* _check_all_cows: the names its for-loop has not reached
    ck_warnings,     \* _check_all_cows: its list "warnings"
    ck_last,         \* _check_all_cows: last_msg_received
    cycles,          \* number of checkup cycles started
    uplink,          \* a Message object (None: not built), log_messages' "uplink"
    message,         \* what uplink.decode() gave (None: not called yet)
    record,          \* a _PointRecord (None: not fetched)
    point,           \* what record.get_warnings() gave (None: not called yet)
    holder,          \* the pool: per connection, the ConnCtx it is out to (0: free)
    ctx              \* per ConnCtx: where it is, its locals and attributes

ttnVars == <<pc, exc, conn, attempt, tasks, taskState, taskMsg, subscribed,
             cur, delivered, lastLog>>
dbVars == <<meas, cows_not_moving, sent, mapping, now>>
ckVars == <<ck_pc, ck_todo, ck_warnings, ck_last, cycles>>

fnVars == <<uplink, message, record, point>>
poolVars == <<holder, ctx>>
vars == <<pc, exc, conn, attempt, tasks, taskState, taskMsg, subscribed,
          cur, delivered, lastLog, meas, cows_not_moving, sent,
          mapping, now, ck_pc, ck_todo, ck_warnings, ck_last, cycles,
          uplink, message, record, point, holder, ctx>>

\* ----------------------------------------------------------------- helpers
Abs(x) == IF x < 0 THEN -x ELSE x

Max2(a, b) == IF a >= b THEN a ELSE b

Pow2(n) == 2 ^ n

\* x & (1 << k) # 0
BitSet(x, k) == (x \div Pow2(k)) % 2 = 1

Take(s, n) == IF Len(s) <= n THEN s ELSE SubSeq(s, 1, n)

\* --------------------------------------------------------- payload decoder
\* _signed with a strict comparison
SignedStrict(val, bits) == IF val > Pow2(bits - 1) THEN val - Pow2(bits) ELSE val

\* Message._signed
Signed(val, bits) == IF val >= Pow2(bits - 1) THEN val - Pow2(bits) ELSE val

\* _rdlsbf reading the most significant byte first
RECURSIVE RdlsbfMsbFirst(_, _, _)
RdlsbfMsbFirst(bytes, offset, length) ==
    IF length = 0 THEN 0
    ELSE RdlsbfMsbFirst(bytes, offset, length - 1) * 256 + bytes[offset + length]

\* Message._rdlsbf: bytes_[offset .. offset+length-1], least significant first
RECURSIVE Rdlsbf(_, _, _)
Rdlsbf(bytes, offset, length) ==
    IF length = 0 THEN 0
    ELSE Rdlsbf(bytes, offset + 1, length - 1) * 256 + bytes[offset + 1]

\* the status set built from byte 0
StatusFlags(flags) ==
    (IF BitSet(flags, 4) THEN {"ERROR"} ELSE {})
        \cup (IF BitSet(flags, 3) THEN {"NOFIX"} ELSE {})
        \cup (IF BitSet(flags, 2) THEN {"INDOOR"} ELSE {})

\* Optional values: None is Python's None, SQL NULL or a missing JSON key;
\* Some(v) is a value that is there.
None == <<>>

Some(v) == <<v>>

IsNone(x) == x = <<>>

Val(x) == x[1]

\* battery with a five-bit mask
BatteryWideMask(byte) == (byte % 32) + 25

\* ((self.__base64[1] & 0x0F) + 25) / 10.0, in tenths of a volt
Battery(byte) == (byte % 16) + 25

\* Message.decode on a Message object m. Result kinds: "raise" (an exception
\* leaves decode), "none" (falls off the else branch, returns None), "msg".
\* m.port is None when the attribute was never assigned (AttributeError);
\* m.base64 is None or Some(bytes); bytes_[k] of a short frame is IndexError.
\* The two 32-bit words are taken apart at their top byte, so that no
\* intermediate value exceeds 2^31: lat28 is _rdlsbf(b, 3, 4) & 0x0FFFFFFF,
\* lon29 is lonacc & 0x1FFFFFFF and alpha is (lonacc >> 29) & 0x7.
Decode(m) ==
    IF IsNone(m.port) THEN [kind |-> "raise"]
    ELSE IF Val(m.port) # DecodePort THEN [kind |-> "none"]
    ELSE IF IsNone(m.base64) THEN [kind |-> "raise"]
    ELSE IF Len(Val(m.base64)) < MinFrameLen THEN [kind |-> "raise"]
    ELSE LET b == Val(m.base64)
             lat28 == Rdlsbf(b, 3, 3) + (b[7] % 16) * Pow2(24)
             lon29 == Rdlsbf(b, 7, 3) + (b[11] % 32) * Pow2(24)
             alpha == b[11] \div 32
         IN [kind |-> "msg",
             dev_eui |-> m.dev_eui,
             battery |-> Battery(b[2]),
             batt_capacity |-> (b[2] \div 16) * 100,
             temp |-> (b[3] % 128) - 32,
             latitude |-> Signed(lat28, 28),
             longitude |-> Signed(lon29, 29),
             accuracy |-> 2 * alpha + 2,
             status |-> StatusFlags(b[1]),
             rssi |-> m.rssi, snr |-> m.snr, sf |-> m.sf]

\* ---------------------------------------------------------- uplink envelope
\* An envelope (the parsed JSON document) is a record
\*   dev_eui: Some(n) or None (missing or not hexadecimal);
\*   uplink, settings: whether data['uplink_message'], data['settings'] exist;
\*   f_port: Some(n) or None;
\*   frm_payload: Some(bytes) (what b64decode yields) or None (missing, or
\*                b64decode raises);
\*   rssi, snr, sf: Some(n) or None (a key on the path is missing).
\* Message.__init__
MessageInit(data) ==
    LET dev == IF IsNone(data.dev_eui) THEN 0 ELSE Val(data.dev_eui) % 512
        body == data.uplink /\ data.settings
        radio == /\ data.uplink /\ data.settings
                 /\ ~IsNone(data.rssi) /\ ~IsNone(data.snr)
                 /\ ~IsNone(data.sf)
    IN [data |-> data,
        dev_eui |-> dev,
        port |-> IF ~body THEN None
                 ELSE IF IsNone(data.f_port) THEN Some(-1) ELSE data.f_port,
        base64 |-> IF ~body THEN None ELSE data.frm_payload,
        rssi |-> IF radio THEN data.rssi ELSE None,
        snr |-> IF radio THEN data.snr ELSE None,
        sf |-> IF radio THEN data.sf ELSE None]

\* Message.__repr__ raises AttributeError when port was never assigned
ReprRaises(m) == IsNone(m.port)

\* ------------------------------------------------------------------ storage
\* deveui values seen on the wire: 1 and 2 are in the directory, 0 is not
\* (0 is also what Message.__init__ falls back to).
DevEuis == {0, 1, 2}

\* the rows of "cows c INNER JOIN trackers t" (Cows._map_names_to_deveuis)
Directory == {<<"A", 1>>, <<"B", 2>>}

Names == {r[1] : r \in Directory}

\* self._mapping_by_deveui[deveui]; the caller checks Known first
NameOf(map, deveui) == (CHOOSE r \in Val(map) : r[2] = deveui)[1]

\* the lookup raises: TypeError on None, KeyError on a missing key
LookupRaises(map, deveui) ==
    IsNone(map) \/ ~(\E r \in Val(map) : r[2] = deveui)

\* "{x if x else 'NULL'}" of Message.store, for a number
NullIfFalsy(v) == IF v = 0 THEN None ELSE Some(v)

\* the same for a value that may be None
NullIfFalsyOpt(o) == IF IsNone(o) THEN None ELSE NullIfFalsy(Val(o))

\* the row Message.store's INSERT writes for a decoded message
InsertRow(d, t) ==
    [t |-> t,
     pos |-> <<d.latitude, d.longitude>>,
     accuracy |-> d.accuracy,
     batt_v |-> NullIfFalsy(d.battery),
     batt_cap |-> NullIfFalsy(d.batt_capacity),
     temp |-> NullIfFalsy(d.temp),
     rssi |-> NullIfFalsyOpt(d.rssi),
     snr |-> NullIfFalsyOpt(d.snr),
     sf |-> NullIfFalsyOpt(d.sf)]

\* Cows._get_last_coords_per_id: ORDER BY t DESC LIMIT n
GetLastCoords(table, deveui, n) == Take(table[deveui], n)

\* ----------------------------------------------------------------- movement
\* geodist(p1, p2).meters, in millimetres: one micro-degree is 111 mm; the
\* geodesic is approximated by the sum of the two coordinate separations.
GeoDist(a, b) == 111 * (Abs(a[1] - b[1]) + Abs(a[2] - b[2]))

\* _is_same_pos with the accuracy of its first argument only
IsSamePosFirstAccuracy(p1, p2) ==
    GeoDist(p1.pos, p2.pos) > AccCoeff * p1.accuracy * 1000

\* Cows._is_same_pos
IsSamePos(p1, p2) ==
    LET acc == Max2(p1.accuracy, p2.accuracy)
        delta == GeoDist(p1.pos, p2.pos)
    IN delta > AccCoeff * acc * 1000

\* the while loop of check_cow_movement; i is the 0-based Python index
RECURSIVE ScanRun(_, _, _)
ScanRun(points, i, p) ==
    IF i < Len(points) /\ IsSamePos(points[1], p)
    THEN ScanRun(points, i + 1, points[i + 1])
    ELSE p

\* "if now.hour < 8 and now.hour > 20: return"
QuietHours(hour) == hour < 8 /\ hour > 20

\* the condition under which check_cow_movement reports the device
Stationary(points) ==
    /\ Len(points) > MinPoints
    /\ IsSamePos(points[1], points[2])
    /\ IsSamePos(points[1], points[3])

\* _Warning(_WarningType.COW_NOT_MOVING, _WarningVariant.DANGER, p.timestamp)
NotMovingWarning(p) ==
    [code |-> "WARN_COW_NOT_MOVING", variant |-> "danger", value |-> p.t]

\* a check that reports every device that has a measurement, since the
\* oldest one it fetched
CheckCowMovementAnyHistory(table, cnm, mails, map, deveui, hour, fail) ==
    LET points == GetLastCoords(table, deveui, HistoryLimit)
        name == NameOf(map, deveui)
        p == points[Len(points)]
    IN IF Len(points) = 0 \/ LookupRaises(map, deveui) \/ fail # "none"
       THEN [cnm |-> cnm, sent |-> mails, raise |-> fail # "none"]
       ELSE [cnm |-> [cnm EXCEPT ![name] = Some(NotMovingWarning(p))],
             sent |-> Append(mails, [kind |-> "not_moving",
                                     names |-> {name}, since |-> p.t]),
             raise |-> FALSE]

\* Cows.check_cow_movement(deveui) against the committed table. fail names
\* what the environment lets fail: "fetch" (the storage read), "mail"
\* (Email.send_email raises), anything else nothing. The result is the new
\* cows_not_moving, the new sent and whether an exception leaves the call.
CheckCowMovement(table, cnm, mails, map, deveui, hour, fail) ==
    LET same == [cnm |-> cnm, sent |-> mails, raise |-> FALSE]
        points == GetLastCoords(table, deveui, HistoryLimit)
    IN IF QuietHours(hour) THEN same
       ELSE IF fail = "fetch" THEN [same EXCEPT !.raise = TRUE]
       ELSE IF ~Stationary(points) THEN same
       ELSE IF LookupRaises(map, deveui) THEN [same EXCEPT !.raise = TRUE]
       ELSE LET p == ScanRun(points, 3, points[4])
                name == NameOf(map, deveui)
            IN [cnm |-> [cnm EXCEPT ![name] = Some(NotMovingWarning(p))],
                sent |-> IF fail = "mail" THEN mails
                         ELSE Append(mails, [kind |-> "not_moving",
                                             names |-> {name}, since |-> p.t]),
                raise |-> fail = "mail"]

\* Message.store for a decoded message d: INSERT in its own transaction,
\* then check_cow_movement inside the same "async with"; an exception rolls
\* the INSERT back. fail = "insert": acquiring, BEGIN or the INSERT fails.
Store(table, cnm, mails, map, d, t, hour, fail) ==
    IF fail = "insert"
    THEN [meas |-> table, cnm |-> cnm, sent |-> mails, raise |-> TRUE]
    ELSE LET r == CheckCowMovement(table, cnm, mails, map, d.dev_eui, hour, fail)
             row == InsertRow(d, t)
         IN [meas |-> IF r.raise THEN table
                      ELSE [table EXCEPT ![d.dev_eui] = <<row>> \o @],
             cnm |-> r.cnm, sent |-> r.sent, raise |-> r.raise]

\* ------------------------------------------------------ warning evaluator
\* the "warnings" block of the configuration as set_warn_levels reads it,
\* for one deployment: volts in tenths, capacities in fifteenths of a
\* percent (50% and 20%), distances in millimetres, times in hours
warn_levels ==
    [batt_v_normal |-> 36, batt_v_warn |-> 34,
     batt_cap_warn |-> 750, batt_cap_danger |-> 300,
     ref_pos |-> <<0, 0>>,
     dist_m_warn |-> 10000, dist_m_danger |-> 20000,
     time_h_warn |-> 2, time_h_danger |-> 5]

\* _Warning(type, variant, value)
Warning(code, variant, value) ==
    [code |-> code, variant |-> variant, value |-> value]

\* "x < y" of Python with x possibly None: raises TypeError for None
LtRaises(x) == IsNone(x)

\* the status each of get_warnings' six tests assigns when it fires, in the
\* code's order (both battery tests and both staleness tests: WARNING)
StatusAfter ==
    <<"warning", "warning", "warning", "danger", "warning", "warning">>

\* _PointRecord.get_warnings at clock tnow for the row r: whether it raises,
\* the list it returns and the status it leaves. The six tests are taken in
\* the code's order, "and"/"or" short-circuit as in Python.
GetWarnings(r, tnow) ==
    LET L == warn_levels
        v == r.batt_v
        c == r.batt_cap
        inBand == ~IsNone(v) /\ Val(v) < L.batt_v_normal /\ Val(v) > L.batt_v_warn
        vDanger == ~IsNone(v) /\ Val(v) < L.batt_v_warn
        raises == \/ LtRaises(v)
                  \/ ~inBand /\ LtRaises(c)
                  \/ ~vDanger /\ LtRaises(c)
        capBand == ~IsNone(c) /\ Val(c) < L.batt_cap_warn
                              /\ Val(c) > L.batt_cap_danger
        capDanger == ~IsNone(c) /\ Val(c) < L.batt_cap_danger
        batt == <<IF IsNone(v) THEN 0 ELSE Val(v),
                  IF IsNone(c) THEN 0 ELSE Val(c)>>
        dist2ref == GeoDist(r.pos, L.ref_pos)
        deltaT == tnow - r.t
        fired == <<inBand \/ capBand,
                   vDanger \/ capDanger,
                   dist2ref > L.dist_m_warn /\ dist2ref < L.dist_m_danger,
                   dist2ref > L.dist_m_danger,
                   deltaT > L.time_h_warn /\ deltaT < L.time_h_danger,
                   deltaT > L.time_h_danger>>
        made == <<Warning("WARN_BATT_LOW", "warning", batt),
                  Warning("WARN_BATT_LOW", "danger", batt),
                  Warning("WARN_COW_TOO_FAR", "warning", <<dist2ref \div 1000>>),
                  Warning("WARN_COW_TOO_FAR", "danger", <<dist2ref \div 1000>>),
                  Warning("WARN_NO_MSGS_RECV", "warning", <<deltaT>>),
                  Warning("WARN_NO_MSGS_RECV", "danger", <<deltaT>>)>>
        last == CHOOSE i \in 0..6 :
                    /\ i = 0 \/ fired[i]
                    /\ \A j \in (i + 1)..6 : ~fired[j]
    IN [raise |-> raises,
        warns |-> IF raises THEN <<>>
                  ELSE SelectSeq(made, LAMBDA w :
                           \E i \in 1..6 : fired[i] /\ made[i] = w),
        status |-> IF raises THEN (IF inBand THEN "warning" ELSE "info")
                   ELSE IF last = 0 THEN "info" ELSE StatusAfter[last]]

\* ------------------------------------------- storage connection contexts
\* the connections of the pool
Conns == 1..MaxConns

\* the ConnCtx objects in use, one per "async with await connection()"
Ctxs == 1..MaxCtx

NoCtx == 0

\* what the environment lets fail at an await: nothing, an Exception (the
\* server or the network), the cancellation of the awaiting task
AwaitFailures == {"none", "error", "cancel"}

\* ConnCtx.__init__, with the local "conn" of __aenter__, the exception type
\* __aexit__ is given, what became of the transaction and how many times the
\* acquired connection went back to the pool
NewConnCtx ==
    [pc |-> "new", conn |-> None, self_conn |-> None, self_trans |-> FALSE,
     extype |-> FALSE, tx |-> "none", released |-> 0]

\* Pool.release(k): raises when k is not a connection of the pool (None)
PoolRelease(h, k) ==
    IF IsNone(k) THEN [holder |-> h, raise |-> TRUE]
    ELSE [holder |-> [h EXCEPT ![Val(k)] = NoCtx], raise |-> FALSE]

\* __aenter__: "conn = await dbpool.acquire()" returns a free connection;
\* with none free the await does not return
Acquire(c) ==
    /\ ctx[c].pc = "new"
    /\ \E k \in Conns :
          /\ holder[k] = NoCtx
          /\ \A j \in Conns : holder[j] = NoCtx => k <= j
          /\ holder' = [holder EXCEPT ![k] = c]
          /\ ctx' = [ctx EXCEPT ![c].pc = "start", ![c].conn = Some(k)]
    /\ UNCHANGED <<ttnVars, dbVars, ckVars, fnVars>>

\* __aenter__: pool() or acquire() raises, nothing was acquired
AcquireFail(c) ==
    /\ ctx[c].pc = "new"
    /\ ctx' = [ctx EXCEPT ![c].pc = "raised"]
    /\ UNCHANGED holder
    /\ UNCHANGED <<ttnVars, dbVars, ckVars, fnVars>>

\* __aenter__ from "trans = conn.transaction()" to its return or raise. An
\* Exception of trans.start() is handled by "await dbpool.release(self.conn)"
\* inside a try that swallows what release raises, and re-raised; a
\* cancellation is not an Exception and leaves at once.
TransStart(c, fail) ==
    /\ ctx[c].pc = "start"
    /\ IF fail = "none"
       THEN /\ ctx' = [ctx EXCEPT ![c].pc = "body", ![c].self_trans = TRUE,
                                  ![c].self_conn = ctx[c].conn,
                                  ![c].tx = "open"]
            /\ UNCHANGED holder
       ELSE IF fail = "error"
       THEN LET r == PoolRelease(holder, ctx[c].self_conn)
            IN /\ holder' = r.holder
               /\ ctx' = [ctx EXCEPT ![c].pc = "raised",
                             ![c].released = @ + (IF r.raise THEN 0 ELSE 1)]
       ELSE /\ ctx' = [ctx EXCEPT ![c].pc = "raised"]
            /\ UNCHANGED holder
    /\ UNCHANGED <<ttnVars, dbVars, ckVars, fnVars>>

\* the body of the "async with" ends, normally or with an exception
BodyEnds(c, raises) ==
    /\ ctx[c].pc = "body"
    /\ ctx' = [ctx EXCEPT ![c].pc = "aexit", ![c].extype = raises]
    /\ UNCHANGED holder
    /\ UNCHANGED <<ttnVars, dbVars, ckVars, fnVars>>

\* __aexit__: rollback or commit inside "try ... except Exception: pass",
\* then "await self.pool.release(self.conn)"; a cancellation during the
\* rollback or commit leaves __aexit__ before the release
AExit(c, fail) ==
    /\ ctx[c].pc = "aexit"
    /\ LET x == ctx[c]
           ended == IF ~x.self_trans THEN x.tx
                    ELSE IF fail # "none" THEN "failed"
                    ELSE IF x.extype THEN "rolledback" ELSE "committed"
           r == PoolRelease(holder, x.self_conn)
       IN IF x.self_trans /\ fail = "cancel"
          THEN /\ ctx' = [ctx EXCEPT ![c].pc = "closed", ![c].tx = ended]
               /\ UNCHANGED holder
          ELSE /\ holder' = r.holder
               /\ ctx' = [ctx EXCEPT
                             ![c].pc = "closed",
                             ![c].tx = ended,
                             ![c].self_trans = x.self_trans /\ fail # "none",
                             ![c].released = @ + (IF r.raise THEN 0 ELSE 1)]
    /\ UNCHANGED <<ttnVars, dbVars, ckVars, fnVars>>

\* no ConnCtx in use, every connection in the pool
InitPool ==
    /\ holder = [k \in Conns |-> NoCtx]
    /\ ctx = [c \in Ctxs |-> NewConnCtx]

\* ----------------------------------------------------- subscription manager
\* the topic filters run is given (run_retry's "topics"), in order
TopicFilters == <<"v3/app/devices/+/up", "v3/app/devices/+/join">>

NumTopics == Len(TopicFilters)

\* a topic filter is named by its place in the tuple
Topics == 1..NumTopics

\* a listener task is named by the attempt that created it and its topic
TaskIds == (1..MaxAttempts) \X Topics

NoTask == <<0, 0>>

Done == {"failed", "cancelled"}

Hours == {3, 12, 22}

Failures == {"none", "insert", "fetch", "mail"}

\* an 11-byte frame: status byte, battery byte, temperature 0x40, the
\* latitude's low byte, longitude 0 and accuracy code 0
Frame(flags, batt, lat) == <<flags, batt, 64, lat, 0, 0, 0, 0, 0, 0, 0>>

Envelope(dev, port, payload) ==
    [dev_eui |-> dev, uplink |-> TRUE, settings |-> TRUE, f_port |-> port,
     frm_payload |-> payload, rssi |-> Some(-80), snr |-> Some(7),
     sf |-> Some(9)]

GoodEnvelope == Envelope(Some(1), Some(136), Some(Frame(0, 60, 0)))

\* the broker messages the listeners are given: json says whether
\* ujson.loads(payload.decode()) returns, data is what it returns
Uplinks ==
    {[json |-> TRUE, data |-> GoodEnvelope],
     [json |-> TRUE, data |-> [Envelope(None, Some(136), Some(Frame(0, 12, 100)))
                                  EXCEPT !.rssi = None]],
     [json |-> TRUE, data |-> Envelope(Some(1), Some(136), Some(Frame(8, 60, 0)))],
     [json |-> TRUE, data |-> Envelope(Some(1), Some(136), Some(Frame(20, 60, 0)))],
     [json |-> TRUE, data |-> Envelope(Some(1), Some(1), Some(Frame(0, 60, 0)))],
     [json |-> TRUE, data |-> Envelope(Some(1), None, Some(Frame(0, 60, 0)))],
     [json |-> TRUE, data |-> Envelope(Some(1), Some(136), Some(<<0, 60, 64, 0, 0, 0, 0, 0, 0, 0>>))],
     [json |-> TRUE, data |-> Envelope(Some(1), Some(136), None)],
     [json |-> TRUE, data |-> [GoodEnvelope EXCEPT !.settings = FALSE]],
     [json |-> TRUE, data |-> [GoodEnvelope EXCEPT !.uplink = FALSE]],
     [json |-> FALSE, data |-> GoodEnvelope]}

\* ShouldStore without the test of the status set
ShouldStoreAnyStatus(d) == d.kind = "msg"

\* log_messages stores a decoded message: "message is not None" and
\* "len(message['status']) > 0" is false
ShouldStore(d) == d.kind = "msg" /\ d.status = {}

\* One iteration of log_messages up to the await of store(): what the
\* nested try/except blocks make of the message.
Pipeline(u) ==
    IF ~u.json THEN "invalid"
    ELSE LET m == MessageInit(u.data)
             d == Decode(m)
         IN IF ReprRaises(m) THEN "invalid"
            ELSE IF d.kind = "raise" THEN "err_decode"
            ELSE IF d.kind = "none" THEN "skipped_port"
            ELSE IF ShouldStore(d) THEN "store"
            ELSE "skipped_status"

\* AfterLogged without the outermost except: an invalid message ends the task
AfterLoggedOuterRaises(what) == IF what = "invalid" THEN "failed" ELSE "wait"

\* where a listener is after its except block has logged: the "async for"
\* goes on to the next message
AfterLogged(what) == "wait"

\* AwaitReturns with the task cancelled but not awaited
AwaitReturnsAtOnce(t) == TRUE

\* cancel_tasks: "await task" returns (here: raises CancelledError, which is
\* swallowed) only once the task is done
AwaitReturns(t) == taskState[t] \in Done

\* the tasks handed to asyncio.gather and to cancel_tasks: self.tasks
Supervised == tasks

ThisAttempt == {t \in tasks : t[1] = attempt}

\* cancel_tasks(self.tasks) is the last callback of the exit stack
ExitThroughTasks ==
    /\ pc' = "exit_tasks"
    /\ cur' = NoTask

\* run_retry calls run; the client connects
ConnectOk ==
    /\ pc = "retry" /\ attempt < MaxAttempts
    /\ attempt' = attempt + 1
    /\ exc' = "none"
    /\ conn' = "up"
    /\ pc' = "listen"
    /\ UNCHANGED <<tasks, taskState, taskMsg, subscribed, cur,
                   delivered, lastLog>>
    /\ UNCHANGED <<dbVars, ckVars, fnVars, poolVars>>

\* run_retry calls run; entering the client raises MqttError; the exit stack
\* holds cancel_tasks only
ConnectFail ==
    /\ pc = "retry" /\ attempt < MaxAttempts
    /\ attempt' = attempt + 1
    /\ exc' = "mqtt"
    /\ ExitThroughTasks
    /\ UNCHANGED <<conn, tasks, taskState, taskMsg, subscribed, delivered,
                   lastLog>>
    /\ UNCHANGED <<dbVars, ckVars, fnVars, poolVars>>

\* "for topic_filter in topics": create the listener task and add it
StartListener ==
    /\ pc = "listen"
    /\ LET k == Cardinality(ThisAttempt) + 1
           t == <<attempt, k>>
       IN /\ tasks' = tasks \cup {t}
          /\ taskState' = [taskState EXCEPT ![t] = "wait"]
          /\ pc' = IF k = NumTopics THEN "subscribe" ELSE "listen"
    /\ UNCHANGED <<exc, conn, attempt, taskMsg, subscribed, cur,
                   delivered, lastLog>>
    /\ UNCHANGED <<dbVars, ckVars, fnVars, poolVars>>

\* "await self.__client.subscribe(topic)" succeeds
SubscribeOk ==
    /\ pc = "subscribe" /\ conn = "up"
    /\ LET k == Cardinality(subscribed) + 1
       IN /\ subscribed' = subscribed \cup {k}
          /\ pc' = IF k = NumTopics THEN "gather_call" ELSE "subscribe"
    /\ UNCHANGED <<exc, conn, attempt, tasks, taskState, taskMsg, cur,
                   delivered, lastLog>>
    /\ UNCHANGED <<dbVars, ckVars, fnVars, poolVars>>

\* subscribe raises MqttError (connection lost, error code, timeout)
SubscribeFail ==
    /\ pc = "subscribe"
    /\ exc' = "mqtt"
    /\ pc' = "exit_client"
    /\ UNCHANGED <<conn, attempt, tasks, taskState, taskMsg, subscribed, cur,
                   delivered, lastLog>>
    /\ UNCHANGED <<dbVars, ckVars, fnVars, poolVars>>

\* the exception gather raises for a done child: its own, or CancelledError
ChildException(t) == IF taskState[t] = "failed" THEN "mqtt" ELSE "cancelled"

\* "await asyncio.gather(*self.tasks)": a child that is already done makes
\* gather raise at once; otherwise run waits
GatherCall ==
    /\ pc = "gather_call"
    /\ \/ /\ \E t \in Supervised :
                /\ taskState[t] \in Done
                /\ exc' = ChildException(t)
          /\ pc' = "exit_client"
       \/ /\ \A t \in Supervised : taskState[t] \notin Done
          /\ pc' = "gather"
          /\ exc' = exc
    /\ UNCHANGED <<conn, attempt, tasks, taskState, taskMsg, subscribed, cur,
                   delivered, lastLog>>
    /\ UNCHANGED <<dbVars, ckVars, fnVars, poolVars>>

\* a child of the awaited gather finishes with an exception
GatherRaise(t) ==
    /\ pc = "gather"
    /\ t \in Supervised /\ taskState[t] \in Done
    /\ exc' = ChildException(t)
    /\ pc' = "exit_client"
    /\ UNCHANGED <<conn, attempt, tasks, taskState, taskMsg, subscribed, cur,
                   delivered, lastLog>>
    /\ UNCHANGED <<dbVars, ckVars, fnVars, poolVars>>

\* the exit stack unwinds: the message managers and the client (disconnect),
\* then cancel_tasks(self.tasks)
ExitClient ==
    /\ pc = "exit_client"
    /\ conn' = "down"
    /\ subscribed' = {}
    /\ ExitThroughTasks
    /\ UNCHANGED <<exc, attempt, tasks, taskState, taskMsg, delivered, lastLog>>
    /\ UNCHANGED <<dbVars, ckVars, fnVars, poolVars>>

\* cancel_tasks: the for loop reaches a task that is not done, cancels it
\* and awaits it. The loop visits the set in no particular order and steps
\* over a done task without any effect, and a task it has cancelled is never
\* waiting or storing again: the tasks still to be cancelled are those of
\* the set that are waiting or storing.
CancelVisit(t) ==
    /\ pc = "exit_tasks" /\ cur = NoTask
    /\ t \in Supervised /\ taskState[t] \in {"wait", "store"}
    /\ taskState' = [taskState EXCEPT ![t] = "cancelling"]
    /\ cur' = t
    /\ UNCHANGED <<pc, exc, conn, attempt, tasks, taskMsg, subscribed,
                   delivered, lastLog>>
    /\ UNCHANGED <<dbVars, ckVars, fnVars, poolVars>>

\* cancel_tasks: "await task" is over, CancelledError swallowed
CancelAwaited ==
    /\ pc = "exit_tasks" /\ cur # NoTask
    /\ AwaitReturns(cur)
    /\ cur' = NoTask
    /\ UNCHANGED <<pc, exc, conn, attempt, tasks, taskState, taskMsg,
                   subscribed, delivered, lastLog>>
    /\ UNCHANGED <<dbVars, ckVars, fnVars, poolVars>>

\* run is left; run_retry's except/finally: log MqttError, sleep
RunLeft ==
    /\ pc = "exit_tasks" /\ cur = NoTask
    /\ \A t \in Supervised : taskState[t] \notin {"wait", "store"}
    /\ pc' = "sleep"
    /\ UNCHANGED <<exc, conn, attempt, tasks, taskState, taskMsg, subscribed,
                   cur, delivered, lastLog>>
    /\ UNCHANGED <<dbVars, ckVars, fnVars, poolVars>>

\* the sleep of the finally clause is over: an MqttError was handled and the
\* loop goes on; any other exception leaves run_retry
SleepDone ==
    /\ pc = "sleep"
    /\ pc' = IF exc \in {"none", "mqtt"} THEN "retry" ELSE "terminated"
    /\ UNCHANGED <<exc, conn, attempt, tasks, taskState, taskMsg, subscribed,
                   cur, delivered, lastLog>>
    /\ UNCHANGED <<dbVars, ckVars, fnVars, poolVars>>

\* the broker connection drops
BrokerDrop ==
    /\ conn = "up" /\ pc \in {"listen", "subscribe", "gather_call", "gather"}
    /\ conn' = "lost"
    /\ UNCHANGED <<pc, exc, attempt, tasks, taskState, taskMsg, subscribed,
                   cur, delivered, lastLog>>
    /\ UNCHANGED <<dbVars, ckVars, fnVars, poolVars>>

\* a listener waiting for its next message finds the client disconnected:
\* the message generator raises MqttError, which ends the task
TaskFail(t) ==
    /\ taskState[t] = "wait" /\ t[1] = attempt
    /\ conn \in {"lost", "down"}
    /\ taskState' = [taskState EXCEPT ![t] = "failed"]
    /\ UNCHANGED <<pc, exc, conn, attempt, tasks, taskMsg, subscribed, cur,
                   delivered, lastLog>>
    /\ UNCHANGED <<dbVars, ckVars, fnVars, poolVars>>

\* a cancelled listener takes the CancelledError; an open store() rolls back
TaskCancelled(t) ==
    /\ taskState[t] = "cancelling"
    /\ taskState' = [taskState EXCEPT ![t] = "cancelled"]
    /\ taskMsg' = [taskMsg EXCEPT ![t] = None]
    /\ UNCHANGED <<pc, exc, conn, attempt, tasks, subscribed, cur,
                   delivered, lastLog>>
    /\ UNCHANGED <<dbVars, ckVars, fnVars, poolVars>>

\* a listener that takes the next message while its store() is pending
ReadyForNextWhileStoring(t) == taskState[t] \in {"wait", "store"}

\* log_messages: the task is at "async for msg in messages", the body of the
\* loop for the message before is over
ReadyForNext(t) == taskState[t] = "wait"

\* log_messages: one message, up to the await of store() or to its log line
Receive(t, u) ==
    /\ ReadyForNext(t) /\ conn = "up" /\ t[2] \in subscribed
    /\ delivered < MaxMsgs
    /\ delivered' = delivered + 1
    /\ LET what == Pipeline(u)
       IN IF what = "store"
          THEN /\ taskState' = [taskState EXCEPT ![t] = "store"]
               /\ taskMsg' = [taskMsg EXCEPT ![t] = Some(MessageInit(u.data))]
               /\ lastLog' = "got"
          ELSE /\ taskState' = [taskState EXCEPT ![t] = AfterLogged(what)]
               /\ lastLog' = what
               /\ UNCHANGED taskMsg
    /\ UNCHANGED <<pc, exc, conn, attempt, tasks, subscribed, cur>>
    /\ UNCHANGED <<dbVars, ckVars, fnVars, poolVars>>

\* log_messages: "await uplink.store()" returns or raises
StoreFinish(t, hour, fail) ==
    /\ taskState[t] = "store"
    /\ LET d == Decode(Val(taskMsg[t]))
           r == Store(meas, cows_not_moving, sent, mapping, d, now, hour, fail)
           what == IF r.raise THEN "err_store" ELSE "stored"
       IN /\ meas' = r.meas
          /\ cows_not_moving' = r.cnm
          /\ sent' = r.sent
          /\ lastLog' = what
          /\ taskState' = [taskState EXCEPT ![t] =
                              IF r.raise THEN AfterLogged(what) ELSE "wait"]
    /\ now' = now + 1
    /\ taskMsg' = [taskMsg EXCEPT ![t] = None]
    /\ UNCHANGED <<pc, exc, conn, attempt, tasks, subscribed, cur,
                   delivered, mapping>>
    /\ UNCHANGED <<ckVars, fnVars, poolVars>>

\* the rows a device has when the process starts (newest first): the newest
\* is 11.1 m from the two before it
Row(t, lat, acc) ==
    [t |-> t, pos |-> <<lat, 0>>, accuracy |-> acc, batt_v |-> Some(37),
     batt_cap |-> Some(1000), temp |-> Some(20), rssi |-> Some(-80),
     snr |-> Some(7), sf |-> Some(9)]

SeedHistory ==
    <<Row(StartTime - 1, 100, 2), Row(StartTime - 2, 0, 2),
      Row(StartTime - 3, 0, 2), Row(StartTime - 4, 0, 2)>>

InitDb ==
    /\ meas = [d \in DevEuis |-> IF d = 2 THEN <<>> ELSE SeedHistory]
    /\ cows_not_moving = [n \in Names |-> None]
    /\ sent = <<>>
    /\ mapping = Some(Directory)
    /\ now = StartTime

InitCheckupIdle ==
    /\ ck_pc = "sleep"
    /\ ck_todo = {}
    /\ ck_warnings = <<>>
    /\ ck_last = 0
    /\ cycles = 0

InitManager ==
    /\ pc = "retry"
    /\ exc = "none"
    /\ conn = "down"
    /\ attempt = 0
    /\ tasks = {}
    /\ taskState = [t \in TaskIds |-> "absent"]
    /\ taskMsg = [t \in TaskIds |-> None]
    /\ subscribed = {}
    /\ cur = NoTask
    /\ delivered = 0
    /\ lastLog = "none"

\* no Message and no _PointRecord is under evaluation
InitFnIdle ==
    /\ uplink = None
    /\ message = None
    /\ record = None
    /\ point = None

Init ==
    /\ InitManager
    /\ InitDb
    /\ InitCheckupIdle
    /\ InitFnIdle
    /\ InitPool

Next ==
    \/ ConnectOk
    \/ ConnectFail
    \/ StartListener
    \/ SubscribeOk
    \/ SubscribeFail
    \/ GatherCall
    \/ \E t \in TaskIds : GatherRaise(t)
    \/ ExitClient
    \/ \E t \in TaskIds : CancelVisit(t)
    \/ CancelAwaited
    \/ RunLeft
    \/ SleepDone
    \/ BrokerDrop
    \/ \E t \in TaskIds : TaskFail(t)
    \/ \E t \in TaskIds : TaskCancelled(t)
    \/ \E t \in TaskIds, u \in Uplinks : Receive(t, u)
    \/ \E t \in TaskIds, h \in Hours, f \in Failures : StoreFinish(t, h, f)

Spec == Init /\ [][Next]_vars

\* ------------------------------------------------- the movement heuristic
\* latitudes (micro-degrees) and accuracies (metres) of the readings stored
Lats == {0, 100, 200}

Accs == {2, 16}

\* what decode returns for a flagless frame of device dev at latitude lat
\* with accuracy acc
Decoded(dev, lat, acc) ==
    [kind |-> "msg", dev_eui |-> dev, battery |-> 37, batt_capacity |-> 1000,
     temp |-> 20, latitude |-> lat, longitude |-> 0, accuracy |-> acc,
     status |-> {}, rssi |-> Some(-80), snr |-> Some(7), sf |-> Some(9)]

\* Message.store of one decoded reading, with the movement check it triggers
StoreMeasurement(dev, lat, acc, hour, fail) ==
    /\ now < StartTime + MaxMeas
    /\ LET r == Store(meas, cows_not_moving, sent, mapping,
                      Decoded(dev, lat, acc), now, hour, fail)
       IN /\ meas' = r.meas
          /\ cows_not_moving' = r.cnm
          /\ sent' = r.sent
    /\ now' = now + 1
    /\ UNCHANGED mapping
    /\ UNCHANGED <<ttnVars, ckVars, fnVars, poolVars>>

\* the registered device that has no measurement when the process starts
NewDevice == 2

InitMove ==
    InitManager /\ InitDb /\ InitCheckupIdle /\ InitFnIdle /\ InitPool

NextMove ==
    \/ \E dev \in {0, 1}, lat \in Lats, acc \in Accs, h \in Hours,
          f \in Failures :
           StoreMeasurement(dev, lat, acc, h, f)
    \/ \E lat \in Lats, h \in Hours :
           StoreMeasurement(NewDevice, lat, 2, h, "none")

SpecMove == InitMove /\ [][NextMove]_vars

\* ---------------------------------------------------- the periodic checkup
CHECKUP_PERIOD_HOURS == 6

LAST_MSG_TIME_H_WARN == 3

\* what the environment lets fail during a checkup
CheckupFailures == {"none", "fetch", "mail"}

\* _check_all_cows returns; _periodic_checkup goes to its sleep
CheckupReturn ==
    /\ ck_pc' = "sleep"
    /\ ck_todo' = {}
    /\ ck_warnings' = <<>>
    /\ ck_last' = 0

\* the exception leaves _periodic_checkup: the task ends
CheckupAbortEndsTask ==
    /\ ck_pc' = "ended"
    /\ ck_todo' = {}
    /\ ck_warnings' = <<>>
    /\ ck_last' = 0

\* the exception leaves _check_all_cows; _periodic_checkup logs it and sleeps
CheckupAbort == CheckupReturn

\* _check_all_cows up to its for-loop: the locals, the mapping created if it
\* is still None (records: what the join of cows and trackers returns), the
\* connection acquired. Iterating a None mapping raises TypeError.
CheckupStart(records, fail) ==
    /\ ck_pc = "start"
    /\ cycles < MaxCycles
    /\ cycles' = cycles + 1
    /\ LET created == IF IsNone(mapping) /\ fail # "fetch" /\ records # {}
                      THEN Some(records) ELSE mapping
       IN /\ mapping' = created
          /\ IF fail = "fetch" \/ IsNone(created)
             THEN CheckupAbort
             ELSE /\ ck_pc' = "loop"
                  /\ ck_todo' = {e[1] : e \in Val(created)}
                  /\ ck_warnings' = <<>>
                  /\ ck_last' = 0
    /\ UNCHANGED <<meas, cows_not_moving, sent, now>>
    /\ UNCHANGED <<ttnVars, fnVars, poolVars>>

DevEuiOf(map, name) == (CHOOSE e \in Val(map) : e[1] = name)[2]

\* one iteration of the for-loop: the latest row of the device, points[0]
\* (IndexError when there is none), last_msg_received, get_warnings
CheckupDevice(name, fail) ==
    /\ ck_pc = "loop"
    /\ name \in ck_todo
    /\ LET points == GetLastCoords(meas, DevEuiOf(mapping, name), 1)
           w == GetWarnings(points[1], now)
       IN IF fail = "fetch" \/ Len(points) = 0 \/ w.raise
          THEN CheckupAbort
          ELSE /\ ck_todo' = ck_todo \ {name}
               /\ ck_last' = Max2(ck_last, points[1].t)
               /\ ck_warnings' = IF Len(w.warns) > 0
                                 THEN Append(ck_warnings, <<name, w.warns>>)
                                 ELSE ck_warnings
               /\ ck_pc' = "loop"
    /\ UNCHANGED <<dbVars, cycles>>
    /\ UNCHANGED <<ttnVars, fnVars, poolVars>>

SilenceMail(last) == [kind |-> "silence", names |-> {}, since |-> last]

AlarmsMail(names) == [kind |-> "alarms", names |-> names, since |-> 0]

\* _check_all_cows after the loop: the silence test, the empty test, the
\* aggregate mail; send_email raising (fail = "mail") sends nothing
CheckupDecide(fail) ==
    /\ ck_pc = "loop"
    /\ ck_todo = {}
    /\ LET silent == (now - ck_last) > LAST_MSG_TIME_H_WARN
           mail == IF silent THEN SilenceMail(ck_last)
                   ELSE AlarmsMail(
                        {ck_warnings[i][1] : i \in 1..Len(ck_warnings)})
       IN IF ~silent /\ Len(ck_warnings) = 0
          THEN sent' = sent /\ CheckupReturn
          ELSE IF fail = "mail"
          THEN sent' = sent /\ CheckupAbort
          ELSE sent' = Append(sent, mail) /\ CheckupReturn
    /\ UNCHANGED <<meas, cows_not_moving, mapping, now, cycles>>
    /\ UNCHANGED <<ttnVars, fnVars, poolVars>>

\* await asyncio.sleep(period)
CheckupSleep ==
    /\ ck_pc = "sleep"
    /\ cycles < MaxCycles
    /\ now' = now + CHECKUP_PERIOD_HOURS
    /\ ck_pc' = "start"
    /\ UNCHANGED <<meas, cows_not_moving, sent, mapping>>
    /\ UNCHANGED <<ck_todo, ck_warnings, ck_last, cycles>>
    /\ UNCHANGED <<ttnVars, fnVars, poolVars>>

\* the latest rows a registered device can have when a checkup starts:
\* none, a recent one, one with the voltage in the warning band, one older
\* than the silence threshold, one written with a NULL capacity
LatestRows ==
    {<<>>,
     <<Row(StartTime - 1, 0, 2)>>,
     <<[Row(StartTime - 1, 0, 2) EXCEPT !.batt_v = Some(35)]>>,
     <<Row(StartTime - 4, 0, 2)>>,
     <<[Row(StartTime - 1, 0, 2) EXCEPT !.batt_cap = None]>>}

InitCheckup ==
    /\ InitManager
    /\ InitFnIdle
    /\ InitPool
    /\ meas \in [DevEuis -> LatestRows]
    /\ meas[0] = <<>>
    /\ cows_not_moving = [n \in Names |-> None]
    /\ sent = <<>>
    /\ mapping \in {None, Some(Directory)}
    /\ now = StartTime
    /\ ck_pc = "start"
    /\ ck_todo = {}
    /\ ck_warnings = <<>>
    /\ ck_last = 0
    /\ cycles = 0

NextCheckup ==
    \/ \E records \in {{}, Directory}, f \in CheckupFailures :
           CheckupStart(records, f)
    \/ \E name \in Names, f \in CheckupFailures : CheckupDevice(name, f)
    \/ \E f \in CheckupFailures : CheckupDecide(f)
    \/ CheckupSleep

SpecCheckup == InitCheckup /\ [][NextCheckup]_vars

\* ------------------------------------------- the evaluator on stored rows
\* battery voltages (tenths of a volt) around the two voltage thresholds
Voltages == {33, 34, 35, 36, 37}

\* capacity nibbles: 0 (stored as NULL), below, at and above the thresholds
Kappas == {0, 2, 3, 5, 8, 10}

\* ages in hours of the row evaluated, around the two staleness thresholds
Ages == {0, 3, 5, 6}

\* a row as Message.store writes it for voltage v and capacity nibble k
StoredRow(v, k, lat, age) ==
    [Row(StartTime - age, lat, 2) EXCEPT !.batt_v = NullIfFalsy(v),
                                         !.batt_cap = NullIfFalsy(k * 100)]

\* record.get_warnings(to_json=False), as _check_all_cows and to_json call it
GetWarningsCall ==
    /\ ~IsNone(record)
    /\ IsNone(point)
    /\ point' = Some(GetWarnings(Val(record), now))
    /\ UNCHANGED <<uplink, message, record>>
    /\ UNCHANGED <<ttnVars, dbVars, ckVars, poolVars>>

InitWarn ==
    /\ InitManager
    /\ InitDb
    /\ InitCheckupIdle
    /\ InitPool
    /\ uplink = None
    /\ message = None
    /\ record \in {Some(StoredRow(v, k, lat, age)) :
                      v \in Voltages, k \in Kappas, lat \in Lats, age \in Ages}
    /\ point = None

NextWarn == GetWarningsCall

SpecWarn == InitWarn /\ [][NextWarn]_vars

\* --------------------------------------- decoding and storing one envelope
\* battery bytes: both nibbles at their ends and inside their ranges
BattBytes == {0, 1, 14, 15, 60, 240, 255}

\* byte 10: accuracy code 0, sign bit of the longitude, codes 1 and 7
AccBytes == {0, 16, 32, 255}

\* byte 6: latitude positive, negative (bit 27), RFU bits set
LatHighBytes == {0, 8, 247}

\* byte 0: no flag, the three flags, the five other bits
FlagBytes == {0, 28, 227}

\* byte 2: 32 degrees, and 0 degrees with the reserved bit 7 set
TempBytes == {64, 160}

\* frames of 11 bytes; the last three: latitude and longitude -1, the
\* smallest latitude and longitude, and eight different bytes in the fields
DecodeFrames ==
    {<<f, b, t, l, 0, 0, h, 0, 0, 0, a>> :
        f \in FlagBytes, b \in BattBytes, t \in TempBytes, l \in {0, 255},
        h \in LatHighBytes, a \in AccBytes}
        \cup {<<0, 60, 64, 255, 255, 255, 15, 255, 255, 255, 31>>,
              <<0, 60, 64, 0, 0, 0, 8, 0, 0, 0, 16>>,
              <<0, 60, 64, 1, 2, 3, 4, 5, 6, 7, 40>>}

\* what b64decode(frm_payload) gives: a frame, a frame with a trailing byte,
\* a 10-byte frame, no byte; None: the key is missing or b64decode raises
Payloads ==
    {Some(f) : f \in DecodeFrames}
        \cup {Some(<<0, 60, 64, 0, 0, 0, 0, 0, 0, 0, 224, 1>>),
              Some(<<0, 60, 64, 0, 0, 0, 0, 0, 0, 0>>), Some(<<>>), None}

Ports == {Some(136), Some(1), None}

DecodeEnvelopes ==
    {Envelope(Some(1), port, payload) : port \in Ports, payload \in Payloads}
        \cup {[Envelope(Some(1), port, Some(Frame(0, 60, 0)))
                  EXCEPT !.settings = FALSE] : port \in Ports}
        \cup {[Envelope(Some(1), None, None) EXCEPT !.uplink = FALSE]}
        \cup {[Envelope(Some(1), Some(136), Some(Frame(0, 60, 0)))
                  EXCEPT !.rssi = Some(0)],
              [Envelope(Some(1), Some(136), Some(Frame(0, 60, 0)))
                  EXCEPT !.snr = Some(0)]}

\* uplink = Message(ujson.loads(payload.decode()))
NewMessage(data) ==
    /\ IsNone(uplink)
    /\ uplink' = Some(MessageInit(data))
    /\ UNCHANGED <<message, record, point>>
    /\ UNCHANGED <<ttnVars, dbVars, ckVars, poolVars>>

\* message = uplink.decode()
DecodeCall ==
    /\ ~IsNone(uplink)
    /\ IsNone(message)
    /\ message' = Some(Decode(Val(uplink)))
    /\ UNCHANGED <<uplink, record, point>>
    /\ UNCHANGED <<ttnVars, dbVars, ckVars, poolVars>>

\* await uplink.store(), for a message log_messages stores
StoreCall(hour, fail) ==
    /\ ~IsNone(message) /\ ShouldStore(Val(message))
    /\ now = StartTime
    /\ LET r == Store(meas, cows_not_moving, sent, mapping, Val(message),
                      now, hour, fail)
       IN /\ meas' = r.meas
          /\ cows_not_moving' = r.cnm
          /\ sent' = r.sent
    /\ now' = now + 1
    /\ UNCHANGED mapping
    /\ UNCHANGED <<ttnVars, ckVars, fnVars, poolVars>>

InitDecode ==
    InitManager /\ InitDb /\ InitCheckupIdle /\ InitFnIdle /\ InitPool

NextDecode ==
    \/ \E data \in DecodeEnvelopes : NewMessage(data)
    \/ DecodeCall
    \/ \E h \in Hours, f \in Failures : StoreCall(h, f)

SpecDecode == InitDecode /\ [][NextDecode]_vars

\* ------------------------------------------- concurrent connection contexts
InitConn ==
    InitManager /\ InitDb /\ InitCheckupIdle /\ InitFnIdle /\ InitPool

NextConn ==
    \E c \in Ctxs :
        \/ Acquire(c)
        \/ AcquireFail(c)
        \/ \E f \in AwaitFailures : TransStart(c, f)
        \/ \E raises \in BOOLEAN : BodyEnds(c, raises)
        \/ \E f \in AwaitFailures : AExit(c, f)

SpecConn == InitConn /\ [][NextConn]_vars

\* ------------------------------------------------------------------ claims
Alive == {"wait", "store", "cancelling"}

\* C1: once a connection is up and its listeners are being gathered, run
\* leaves the gather only because that connection was lost: after an outage
\* the next reachable connection keeps its listeners consuming until the
\* next transport error.
C1_IngestionResumes ==
    [][(pc \in {"gather_call", "gather"} /\ pc' = "exit_client")
          => conn = "lost"]_vars

\* C2: run_retry never returns and never lets an exception out (no shutdown
\* is modelled): it never reaches "terminated".
C2_RetryNeverEnds == pc # "terminated"

\* C3: no listener task outlives its connection: a task that is not done
\* belongs to the current attempt, and run has not returned yet.
C3_NoTaskOutlivesRun ==
    \A t \in TaskIds :
        taskState[t] \in Alive
            => t[1] = attempt /\ pc \notin {"sleep", "retry", "terminated"}

\* C3's case: a transport error with every listener of the attempt started;
\* run has returned with the MqttError, one listener ended by itself and one
\* was cancelled and awaited by cancel_tasks.
C3_Witness ==
    /\ pc = "sleep" /\ exc = "mqtt"
    /\ Cardinality(ThisAttempt) = NumTopics
    /\ \E t \in ThisAttempt : taskState[t] = "cancelled"
    /\ \E t \in ThisAttempt : taskState[t] = "failed"

ErrorLogs == {"invalid", "err_decode", "err_store"}

\* C4: a step in which a listener logs a failed message (bad JSON or
\* envelope, decode error, store or movement error) ends no task, cancels
\* none, and leaves the connection and the manager where they were; the
\* listener itself waits for its next message.
C4_FailureKeepsListening ==
    [][((delivered' # delivered \/ now' # now) /\ lastLog' \in ErrorLogs)
          => /\ \A t \in TaskIds :
                    \/ taskState'[t] = taskState[t]
                    \/ taskState[t] = "store" /\ taskState'[t] = "wait"
             /\ conn' = conn /\ pc' = pc /\ exc' = exc /\ cur' = cur
             /\ tasks' = tasks /\ subscribed' = subscribed]_vars

\* C4's case: a store failure was logged and every listener of the running
\* connection is waiting for its next message.
C4_Witness ==
    /\ lastLog = "err_store" /\ conn = "up" /\ pc = "gather"
    /\ Cardinality(ThisAttempt) = NumTopics
    /\ \A t \in ThisAttempt : taskState[t] = "wait"

\* the message a storing listener holds is on port 136, has a frame of at
\* least 11 bytes and no status flag
Storable(m) ==
    /\ ~IsNone(m.port) /\ Val(m.port) = DecodePort
    /\ ~IsNone(m.base64) /\ Len(Val(m.base64)) >= MinFrameLen
    /\ StatusFlags(Val(m.base64)[1]) = {}

\* C5: whenever the table, the movement cache or the sent mails change, a
\* listener is storing a message on port 136 with at least 11 bytes and an
\* empty status set, and a changed table has gained exactly that message's
\* decoded row.
C5_OnlyValidInserted ==
    [][(meas' # meas \/ cows_not_moving' # cows_not_moving \/ sent' # sent)
          => \E t \in TaskIds :
                /\ taskState[t] = "store"
                /\ Storable(Val(taskMsg[t]))
                /\ LET m == Val(taskMsg[t])
                   IN meas' # meas
                        => meas' = [meas EXCEPT ![m.dev_eui] =
                                       <<InsertRow(Decode(m), now)>> \o @]]_vars

\* C5's case: the pipeline has inserted a measurement of device 1
C5_Witness == lastLog = "stored" /\ Len(meas[1]) > Len(SeedHistory)

\* what check_cow_movement fetches for dev in the current state
Fetched(dev) == GetLastCoords(meas, dev, HistoryLimit)

\* a step in which check_cow_movement(dev) ran to its end, no storage or
\* mail failure interfering
MovementChecked(dev) ==
    \E lat \in Lats, acc \in Accs, h \in Hours :
        StoreMeasurement(dev, lat, acc, h, "none")

\* C7: a device-not-moving notification is sent once per transition into
\* the stationary state: a check that finds the device stationary sends one
\* mail when the device has no cached MovementState, and none when it has
\* one and was already stationary at the reading before.
C7_NotifiedOncePerTransition ==
    [][\A dev \in {1} :
          (MovementChecked(dev) /\ Stationary(Fetched(dev)))
             => LET name == NameOf(mapping, dev)
                IN IF IsNone(cows_not_moving[name])
                   THEN Len(sent') = Len(sent) + 1
                   ELSE Stationary(Tail(Fetched(dev))) => sent' = sent]_vars

\* C10 as claimed: two readings are the same position when their separation
\* is at most twice the larger accuracy
WithinAccuracy(p1, p2) ==
    GeoDist(p1.pos, p2.pos)
        <= AccCoeff * Max2(p1.accuracy, p2.accuracy) * 1000

\* the stored row whose timestamp the cached MovementState of name holds
CachedPoint(dev, name) ==
    CHOOSE r \in {meas[dev][i] : i \in 1..Len(meas[dev])} :
        r.t = Val(cows_not_moving[name]).value

\* C8: when a measurement is persisted whose position differs from the
\* cached stationary position, the check it triggers leaves the device with
\* no entry in cows_not_moving.
C8_ClearedOnMovement ==
    [][\A dev \in {1} :
          (/\ MovementChecked(dev)
           /\ ~IsNone(cows_not_moving[NameOf(mapping, dev)])
           /\ ~WithinAccuracy(meas'[dev][1],
                              CachedPoint(dev, NameOf(mapping, dev))))
             => IsNone(cows_not_moving'[NameOf(mapping, dev)])]_vars

\* the 1-based index of the oldest point of the contiguous run of points
\* that _is_same_pos finds the same as the newest
RECURSIVE RunEnd(_, _)
RunEnd(points, k) ==
    IF k < Len(points) /\ IsSamePos(points[1], points[k + 1])
    THEN RunEnd(points, k + 1)
    ELSE k

\* C9: when the check finds the newest point same-position as the next two,
\* the stored MovementState has severity danger and the timestamp of the
\* oldest point of the run of points same-position as the newest.
C9_SinceIsOldestOfRun ==
    [][\A dev \in {1} :
          (MovementChecked(dev) /\ Stationary(Fetched(dev)))
             => LET w == cows_not_moving'[NameOf(mapping, dev)]
                    pts == Fetched(dev)
                IN /\ ~IsNone(w)
                   /\ Val(w).variant = "danger"
                   /\ Val(w).value = pts[RunEnd(pts, 3)].t]_vars

\* C10: _is_same_pos(p1, p2) is true exactly when the separation is at most
\* twice the larger accuracy, for every two stored readings of a device.
C10_SamePosIsWithinAccuracy ==
    \A dev \in DevEuis :
        \A i, j \in 1..Len(meas[dev]) :
            IsSamePos(meas[dev][i], meas[dev][j])
                <=> WithinAccuracy(meas[dev][i], meas[dev][j])

\* the latest measurement of every registered device that has one
LatestOfFleet ==
    {meas[e[2]][1] : e \in {x \in Directory : Len(meas[x[2]]) > 0}}

\* the registered devices whose latest measurement has warnings
DevicesWithWarnings ==
    {e[1] : e \in {x \in Directory :
        /\ Len(meas[x[2]]) > 0
        /\ ~GetWarnings(meas[x[2]][1], now).raise
        /\ Len(GetWarnings(meas[x[2]][1], now).warns) > 0}}

FleetLast == CHOOSE t \in {r.t : r \in LatestOfFleet} :
                 \A r \in LatestOfFleet : r.t <= t

\* a step that ends a checkup cycle, storage and mail not failing
CycleEnds ==
    /\ ck_pc' = "sleep"
    /\ \/ \E records \in {{}, Directory} : CheckupStart(records, "none")
       \/ \E name \in Names : CheckupDevice(name, "none")
       \/ CheckupDecide("none")

\* C6: a checkup cycle over a fleet with at least one measurement sends
\* exactly one gateway-silence notification and nothing else when the age of
\* the fleet-wide most recent measurement exceeds the silence threshold;
\* otherwise exactly one aggregate notification naming every device with
\* warnings when there is one; otherwise nothing.
C6_CheckupOutcome ==
    [][(CycleEnds /\ ~IsNone(mapping') /\ LatestOfFleet # {})
          => sent' = IF now - FleetLast > LAST_MSG_TIME_H_WARN
                     THEN Append(sent, SilenceMail(FleetLast))
                     ELSE IF DevicesWithWarnings # {}
                     THEN Append(sent, AlarmsMail(DevicesWithWarnings))
                     ELSE sent]_vars

\* info < warning < danger
Severity(variant) ==
    IF variant = "danger" THEN 2 ELSE IF variant = "warning" THEN 1 ELSE 0

\* the largest severity among the warnings of the list ws, 0 if it is empty
MaxSeverity(ws) ==
    IF \E i \in 1..Len(ws) : ws[i].variant = "danger" THEN 2
    ELSE IF \E i \in 1..Len(ws) : ws[i].variant = "warning" THEN 1
    ELSE 0

\* C11: after get_warnings has evaluated a measurement (and returned), the
\* measurement's status is the maximum severity among the warnings that
\* fired, info if none fired.
C11_StatusIsMaxSeverity ==
    (~IsNone(point) /\ ~Val(point).raise)
        => Severity(Val(point).status) = MaxSeverity(Val(point).warns)

\* get_warnings returned a battery-low warning of this tier
Emitted(variant) ==
    /\ ~IsNone(point)
    /\ \E i \in 1..Len(Val(point).warns) :
           /\ Val(point).warns[i].code = "WARN_BATT_LOW"
           /\ Val(point).warns[i].variant = variant

\* the capacity of the measurement evaluated: store writes NULL for 0 only
CapacityOf(r) == IF IsNone(r.batt_cap) THEN 0 ELSE Val(r.batt_cap)

\* C12: for the measurement evaluated, battery-low/warning is emitted iff
\* warnVoltage < V < normalVoltage or dangerCapacity < capacity <
\* warnCapacity, and battery-low/danger iff V < warnVoltage or capacity <
\* dangerCapacity, each tier on its own.
C12_BatteryTiers ==
    ~IsNone(point) =>
        LET r == Val(record)
            V == Val(r.batt_v)
            cap == CapacityOf(r)
            L == warn_levels
        IN /\ Emitted("warning")
                <=> \/ L.batt_v_warn < V /\ V < L.batt_v_normal
                    \/ L.batt_cap_danger < cap /\ cap < L.batt_cap_warn
           /\ Emitted("danger")
                <=> (V < L.batt_v_warn \/ cap < L.batt_cap_danger)

\* decode was called on a frame of at least 11 bytes on port 136
DecodedFrame ==
    /\ ~IsNone(message)
    /\ Val(uplink).data.uplink /\ Val(uplink).data.settings
    /\ Val(uplink).data.f_port = Some(DecodePort)
    /\ ~IsNone(Val(uplink).data.frm_payload)
    /\ Len(Val(Val(uplink).data.frm_payload)) >= MinFrameLen

\* capacity in [0, 100] % and accuracy in {2, 4, ..., 16} m
CapacityAccuracyInRange(d) ==
    /\ d.batt_capacity \in 0..1500
    /\ d.accuracy \in {2 * k : k \in 1..8}

\* C13 as claimed: for every frame of at least 11 bytes on port 136 decode
\* gives battery voltage in [2.6, 3.9] V, capacity in [0, 100] % and
\* accuracy in {2, 4, ..., 16} m.
C13_DocumentedRanges ==
    DecodedFrame =>
        /\ Val(message).kind = "msg"
        /\ Val(message).battery \in 26..39
        /\ CapacityAccuracyInRange(Val(message))

\* the voltage nibble of the frame decoded
Nu == Val(Val(uplink).data.frm_payload)[2] % 16

\* C13 amended: for every frame of at least 11 bytes on port 136 decode
\* gives battery voltage in [2.5, 4.0] V, within [2.6, 3.9] V exactly when
\* the voltage nibble is in its documented range 1..14, capacity in
\* [0, 100] % and accuracy in {2, 4, ..., 16} m.
C13_ActualRanges ==
    DecodedFrame =>
        /\ Val(message).kind = "msg"
        /\ Val(message).battery \in 25..40
        /\ (Val(message).battery \in 26..39) <=> (Nu \in 1..14)
        /\ CapacityAccuracyInRange(Val(message))

\* a frame with voltage nibble 15 and accuracy code 7 has been decoded
C13_Witness ==
    /\ DecodedFrame
    /\ Val(message).kind = "msg"
    /\ Val(message).battery = 40
    /\ Val(message).accuracy = 16

\* C14: decode returns None, without raising, for every message whose port
\* is not 136 (f_port another number or absent), whatever its payload.
C14_OtherPortsGiveNone ==
    (/\ ~IsNone(message)
     /\ Val(uplink).data.uplink
     /\ Val(uplink).data.f_port # Some(DecodePort))
        => Val(message).kind = "none"

\* C15: the checkup loop never stops: whatever happens in a cycle (a
\* storage failure, a device without measurements, a failed send), the
\* cycle ends at the loop's sleep, and the step after the sleep starts the
\* next cycle.
C15_CheckupNeverStops ==
    [][/\ ck_pc \in {"start", "loop"} => ck_pc' \in {"loop", "sleep"}
       /\ ck_pc = "sleep" => ck_pc' = "start"]_vars

\* a second cycle is in its loop although the first one raised (device 1 is
\* registered and has no measurement)
C15_Witness ==
    /\ cycles = 2
    /\ ck_pc = "loop"
    /\ ~IsNone(mapping)
    /\ meas[1] = <<>>

\* C16: the history check_cow_movement reads when Message.store triggers
\* it includes the row that store call inserted: what the check decides is
\* what it decides on the table with the new row.
C16_CheckSeesInsert ==
    [][\A dev \in {1} :
          MovementChecked(dev)
             => LET r == CheckCowMovement(meas', cows_not_moving, sent,
                                          mapping, dev, 12, "none")
                IN /\ cows_not_moving' = r.cnm
                   /\ sent' = r.sent]_vars

\* a step in which Message.store ran for dev with the mail server failing
StoredWithMailDown(dev) ==
    \E lat \in Lats, acc \in Accs, h \in Hours :
        StoreMeasurement(dev, lat, acc, h, "mail")

\* C17: a failed send is absorbed: when the send issued by
\* check_cow_movement fails, the measurement whose storage triggered the
\* check stays persisted and nothing is recorded as sent.
C17_FailedSendAbsorbed ==
    [][\A dev \in {1} :
          StoredWithMailDown(dev)
             => /\ Len(meas'[dev]) = Len(meas[dev]) + 1
                /\ sent' = sent]_vars

\* the envelope has a device identifier, port 136 and a payload that decodes
\* to a reading without status flags
CoreValid(u) ==
    /\ u.json
    /\ ~IsNone(u.data.dev_eui)
    /\ u.data.uplink
    /\ u.data.f_port = Some(DecodePort)
    /\ ~IsNone(u.data.frm_payload)
    /\ Len(Val(u.data.frm_payload)) >= MinFrameLen
    /\ StatusFlags(Val(u.data.frm_payload)[1]) = {}

\* C18: an uplink with a valid device identifier, port 136 and a valid
\* payload is decoded and handed to store() whether or not the settings
\* object, the spreading factor or the receive metadata are there; what is
\* missing of rssi, snr and spreading factor is recorded as unknown.
C18_RadioValuesOptional ==
    [][\A t \in TaskIds, u \in Uplinks :
          (Receive(t, u) /\ CoreValid(u))
             => /\ taskState'[t] = "store"
                /\ LET d == Decode(Val(taskMsg'[t]))
                   IN /\ d.kind = "msg"
                      /\ IsNone(u.data.rssi) => IsNone(d.rssi)
                      /\ IsNone(u.data.snr) => IsNone(d.snr)
                      /\ (IsNone(u.data.sf) \/ ~u.data.settings)
                            => IsNone(d.sf)]_vars

\* the local hour is outside 08:00-20:00
OutsideDaytime(h) == h < 8 \/ h > 20

\* C19: during quiet hours check_cow_movement is skipped: a store at a local
\* hour outside 08:00-20:00 changes no MovementState and sends nothing.
C19_SkippedInQuietHours ==
    [][\A dev \in {1} :
          (\E lat \in Lats, acc \in Accs, h \in Hours :
              OutsideDaytime(h) /\ StoreMeasurement(dev, lat, acc, h, "none"))
             => /\ cows_not_moving' = cows_not_moving
                /\ sent' = sent]_vars

\* C20: check_cow_movement for a device that is not in the directory
\* creates no MovementState, sends nothing and does not raise to its
\* caller: the store that called it commits its row.
C20_UnknownDeviceIgnored ==
    [][\A dev \in {d \in DevEuis : LookupRaises(mapping, d)} :
          MovementChecked(dev)
             => /\ cows_not_moving' = cows_not_moving
                /\ sent' = sent
                /\ Len(meas'[dev]) = Len(meas[dev]) + 1]_vars

\* the frame decoded
FrameBytes == Val(Val(uplink).data.frm_payload)

\* bit k of the byte x
Bit(x, k) == (x \div Pow2(k)) % 2

\* the low bits of the little-endian 32-bit field at 0-based offset o of b,
\* its top byte reduced modulo top
LowBits(b, o, top) ==
    b[o + 1] + 256 * b[o + 2] + 65536 * b[o + 3] + 16777216 * (b[o + 4] % top)

\* the n-bit value v read as a signed number: bit n-1 is the sign
SignExtend(v, n) == IF Bit(v, n - 1) = 1 THEN v - Pow2(n) ELSE v

TwosComplement(v, n) ==
    CHOOSE r \in {v, v - Pow2(n)} : -Pow2(n - 1) <= r /\ r < Pow2(n - 1)

\* C22: _signed(v, n) is v - 2^n when v >= 2^(n-1) and v otherwise: for all
\* values of up to 6 bits, and for the 28-bit latitude and the 29-bit
\* longitude of every frame decoded; 0x0FFFFFFF gives -1 and 0x08000000
\* gives -2^27.
C22_SignExtension ==
    /\ \A n \in 1..6 : \A v \in 0..(Pow2(n) - 1) :
           Signed(v, n) = TwosComplement(v, n)
    /\ DecodedFrame =>
           LET lat28 == LowBits(FrameBytes, 3, 16)
               lon29 == LowBits(FrameBytes, 7, 32)
               d == Val(message)
           IN /\ d.kind = "msg"
              /\ d.latitude = TwosComplement(lat28, 28)
              /\ d.longitude = TwosComplement(lon29, 29)
              /\ lat28 = 268435455 => d.latitude = -1
              /\ lat28 = 134217728 => d.latitude = -134217728

\* the frame with latitude field 0x08000000 has been decoded
C22_Witness ==
    /\ DecodedFrame
    /\ LowBits(FrameBytes, 3, 16) = 134217728
    /\ Val(message).kind = "msg"
    /\ Val(message).latitude = -134217728

\* C23: once a MovementState is set for a device, storing a reading at the
\* cached position (within accuracy of the point the entry dates from) leaves
\* the entry and its since-timestamp unchanged.
C23_SamePositionKeepsState ==
    [][\A dev \in {1} :
          LET name == NameOf(mapping, dev)
          IN (/\ MovementChecked(dev)
              /\ ~IsNone(cows_not_moving[name])
              /\ WithinAccuracy(meas'[dev][1], CachedPoint(dev, name)))
                => cows_not_moving'[name] = cows_not_moving[name]]_vars

\* the read of the latest measurement of name fails: the query raises, or
\* the device has no measurement at all
ReadFails(name, fail) ==
    \/ fail = "fetch"
    \/ Len(GetLastCoords(meas, DevEuiOf(mapping, name), 1)) = 0

\* C24: in a checkup cycle a failure while reading one device skips only
\* that device: the loop goes on with the remaining devices, keeping the
\* warnings and the latest timestamp collected so far, so that the silence
\* test and the aggregate notification of the cycle are still computed.
C24_ReadFailureSkipsDevice ==
    [][\A name \in Names, fail \in CheckupFailures :
          (CheckupDevice(name, fail) /\ ReadFails(name, fail))
             => /\ ck_pc' = "loop"
                /\ ck_todo' = ck_todo \ {name}
                /\ ck_warnings' = ck_warnings
                /\ ck_last' = ck_last]_vars

\* C25: a listener task processes its messages in the order it receives
\* them and one at a time: it holds a message only while it awaits that
\* message's store() (or a cancellation requested during that await is
\* pending), the message it holds is not replaced before that store() has
\* returned or raised or the task has ended, and it takes the next message
\* only when it holds none.
C25_OneAtATime ==
    [][\A t \in TaskIds :
          /\ taskState[t] = "store" => ~IsNone(taskMsg[t])
          /\ ~IsNone(taskMsg[t]) => taskState[t] \in {"store", "cancelling"}
          /\ (~IsNone(taskMsg[t]) /\ ~IsNone(taskMsg'[t]))
                => taskMsg'[t] = taskMsg[t]
          /\ (\E u \in Uplinks : Receive(t, u)) => IsNone(taskMsg[t])]_vars

\* a listener awaits the store() of its second message, the first stored
C25_Witness ==
    \E t \in TaskIds :
        /\ taskState[t] = "store"
        /\ delivered = MaxMsgs
        /\ Len(meas[1]) > Len(SeedHistory)

\* C26: check_cow_movement sets no MovementState and sends no notification
\* when the device has fewer than 4 stored measurements, whatever their
\* positions are.
C26_NoStateBelowFourPoints ==
    [][\A dev \in DevEuis :
          (/\ \E lat \in Lats, acc \in Accs, h \in Hours, f \in Failures :
                 StoreMeasurement(dev, lat, acc, h, f)
           /\ Len(Fetched(dev)) < 4)
             => (cows_not_moving' = cows_not_moving /\ sent' = sent)]_vars

\* the check has run on the three measurements of a device, the newest of
\* which _is_same_pos finds the same as the two before it
C26_Witness ==
    /\ Len(meas[NewDevice]) = 4
    /\ IsSamePos(meas[NewDevice][2], meas[NewDevice][3])
    /\ IsSamePos(meas[NewDevice][2], meas[NewDevice][4])
    /\ IsNone(cows_not_moving[NameOf(mapping, NewDevice)])

\* C28: _is_same_pos is symmetric: for every two stored readings a, b of a
\* device, _is_same_pos(a, b) = _is_same_pos(b, a).
C28_SamePosSymmetric ==
    \A dev \in DevEuis :
        \A i, j \in 1..Len(meas[dev]) :
            IsSamePos(meas[dev][i], meas[dev][j])
                <=> IsSamePos(meas[dev][j], meas[dev][i])

\* a device has two readings of different accuracies whose separation is
\* beyond twice the smaller accuracy and within twice the larger
C28_Witness ==
    \E dev \in DevEuis :
        \E i, j \in 1..Len(meas[dev]) :
            LET a == meas[dev][i]
                b == meas[dev][j]
            IN /\ a.accuracy < b.accuracy
               /\ GeoDist(a.pos, b.pos) > AccCoeff * a.accuracy * 1000
               /\ GeoDist(a.pos, b.pos) <= AccCoeff * b.accuracy * 1000

\* get_warnings returned a warning of this type and tier
EmittedOf(code, variant) ==
    /\ ~IsNone(point)
    /\ \E i \in 1..Len(Val(point).warns) :
           /\ Val(point).warns[i].code = code
           /\ Val(point).warns[i].variant = variant

\* C27: for the measurement evaluated, too-far/warning is emitted iff the
\* distance to the reference position is strictly between warnDistance and
\* dangerDistance, too-far/danger iff it exceeds dangerDistance,
\* stale/warning iff the age is strictly between the two staleness
\* thresholds and stale/danger iff it exceeds the danger threshold: whatever
\* the battery values are, and at most one tier of each type.
C27_DistanceStaleTiers ==
    ~IsNone(point) =>
        LET r == Val(record)
            L == warn_levels
            dist == GeoDist(r.pos, L.ref_pos)
            age == now - r.t
        IN /\ EmittedOf("WARN_COW_TOO_FAR", "warning")
                <=> (L.dist_m_warn < dist /\ dist < L.dist_m_danger)
           /\ EmittedOf("WARN_COW_TOO_FAR", "danger")
                <=> dist > L.dist_m_danger
           /\ EmittedOf("WARN_NO_MSGS_RECV", "warning")
                <=> (L.time_h_warn < age /\ age < L.time_h_danger)
           /\ EmittedOf("WARN_NO_MSGS_RECV", "danger")
                <=> age > L.time_h_danger
           /\ ~(EmittedOf("WARN_COW_TOO_FAR", "warning")
                  /\ EmittedOf("WARN_COW_TOO_FAR", "danger"))
           /\ ~(EmittedOf("WARN_NO_MSGS_RECV", "warning")
                  /\ EmittedOf("WARN_NO_MSGS_RECV", "danger"))

\* C29: at every connection attempt the tasks run supervises are listener
\* tasks started during that attempt only: exactly one per topic filter when
\* they are awaited as a group, and no task of an earlier attempt when they
\* are cancelled on exit.
C29_SupervisedIsThisAttempt ==
    /\ pc \in {"gather_call", "gather"}
          => Supervised = {<<attempt, k>> : k \in Topics}
    /\ pc = "exit_tasks" => \A t \in Supervised : t[1] = attempt

\* the row written for the message decoded, if store() has committed one
Persisted ==
    /\ ~IsNone(message) /\ Val(message).kind = "msg"
    /\ Len(meas[Val(message).dev_eui]) > 0
    /\ meas[Val(message).dev_eui][1].t >= StartTime

\* C30: every column of a measurement written by Message.store equals the
\* decoded value, and is NULL only when the value is absent: a capacity of
\* 0 %, a temperature of 0 degrees and an rssi or snr of 0 are stored as 0.
C30_ColumnsAsDecoded ==
    Persisted =>
        LET d == Val(message)
            row == meas[d.dev_eui][1]
        IN /\ row.batt_v = Some(d.battery)
           /\ row.batt_cap = Some(d.batt_capacity)
           /\ row.temp = Some(d.temp)
           /\ row.rssi = d.rssi
           /\ row.snr = d.snr
           /\ row.sf = d.sf

\* the contexts that are between their acquire and the end of __aexit__
InFlight == {c \in Ctxs : ctx[c].pc \in {"start", "body", "aexit"}}

\* C31: every ConnCtx releases the connection it acquired exactly once on
\* every path: once it is over (its __aexit__ has ended, or its __aenter__
\* has raised) it holds no connection and the connection it acquired went
\* back to the pool once; the transaction is committed when the body
\* succeeded and rolled back when it raised; and a context that wants a
\* connection waits only for contexts that are still in flight.
C31_ReleasedExactlyOnce ==
    /\ \A c \in Ctxs :
          LET x == ctx[c]
              over == x.pc \in {"closed", "raised"}
          IN /\ over => \A k \in Conns : holder[k] # c
             /\ x.released <= 1
             /\ (over /\ ~IsNone(x.conn)) => x.released = 1
             /\ (x.pc = "closed" /\ x.tx # "failed")
                   => x.tx = IF x.extype THEN "rolledback" ELSE "committed"
    /\ Cardinality(InFlight) < MaxConns => \E k \in Conns : holder[k] = NoCtx

====
